---- MODULE Spec2Model ----
(***************************************************************************)
(* A state-machine model of the Z interpreter of src/z.py: the registry    *)
(* built by ZVisitor.visit_program, the evaluator run/evaluate, and the    *)
(* built-ins zget, zprint, znot and zadd.  The recursion of run and        *)
(* evaluate is unfolded into an explicit stack of run frames, each with    *)
(* the continuation of its pending evaluate calls.                         *)
(***************************************************************************)
EXTENDS Integers, Sequences, FiniteSets, TLC

VARIABLES pid, status, functions, stack, ctl, output, diag, exc, stdin, nread

vars == <<pid, status, functions, stack, ctl, output, diag, exc, stdin, nread>>

(***************************************************************************)
(* Bounds.                                                                 *)
(***************************************************************************)
\* Depth of nested run frames at which the host raises RecursionError.
StackLimit == 4

(***************************************************************************)
(* Runtime values.  Every value has the same four fields; a string is the  *)
(* sequence of its characters.  Numbers are integers (no floats).          *)
(***************************************************************************)
NoneV == [t |-> "none", n |-> 0, s |-> <<>>, l |-> <<>>]

IntV(k) == [t |-> "int", n |-> k, s |-> <<>>, l |-> <<>>]

BoolV(b) == [t |-> "bool", n |-> IF b THEN 1 ELSE 0, s |-> <<>>, l |-> <<>>]

StrV(cs) == [t |-> "str", n |-> 0, s |-> cs, l |-> <<>>]

ListV(vs) == [t |-> "list", n |-> 0, s |-> <<>>, l |-> vs]

\* A syntax-tree object used as a value (evaluate's last line returns the node).
ObjV(type) == [t |-> "obj", n |-> 0, s |-> <<type>>, l |-> <<>>]

\* Python truthiness, as tested by `if return_value`, `if not evaluate(...)`
\* and `not args`.
Truthy(v) ==
    CASE v.t = "none" -> FALSE
      [] v.t \in {"int", "bool"} -> v.n # 0
      [] v.t = "str" -> v.s # <<>>
      [] v.t = "list" -> v.l # <<>>
      [] OTHER -> TRUE

IsNum(v) == v.t \in {"int", "bool"}

(***************************************************************************)
(* Characters, and the conversions between integers and their text.        *)
(***************************************************************************)
Digits == <<"0", "1", "2", "3", "4", "5", "6", "7", "8", "9">>

\* The characters of the model in code-point order.
Alphabet == <<"\n", "-", "0", "1", "2", "3", "4", "5", "6", "7", "8", "9",
              "<", ">", "N", "a", "b", "c", "e", "f", "j", "l", "m", "n",
              "o", "r", "s", "t", "u", "x", "z">>

CharCode(c) == CHOOSE k \in 1..Len(Alphabet) : Alphabet[k] = c

IsDigit(c) == \E k \in 1..10 : Digits[k] = c

DigitVal(c) == (CHOOSE k \in 1..10 : Digits[k] = c) - 1

RECURSIVE NatText(_)
NatText(k) ==
    IF k < 10 THEN <<Digits[k + 1]>>
    ELSE NatText(k \div 10) \o <<Digits[(k % 10) + 1]>>

\* str(int)
IntText(k) == IF k < 0 THEN <<"-">> \o NatText(-k) ELSE NatText(k)

RECURSIVE DigitsVal(_, _)
DigitsVal(cs, acc) ==
    IF cs = <<>> THEN acc
    ELSE DigitsVal(Tail(cs), 10 * acc + DigitVal(Head(cs)))

AllDigits(cs) == cs # <<>> /\ \A k \in 1..Len(cs) : IsDigit(cs[k])

\* Whether int(content) succeeds, for content over Alphabet.
IntParses(cs) ==
    \/ AllDigits(cs)
    \/ (cs # <<>> /\ Head(cs) = "-" /\ AllDigits(Tail(cs)))

\* int(content)
IntParse(cs) ==
    IF Head(cs) = "-" THEN 0 - DigitsVal(Tail(cs), 0) ELSE DigitsVal(cs, 0)

\* Lexicographic order of Python strings.
RECURSIVE StrLess(_, _)
StrLess(a, b) ==
    IF b = <<>> THEN FALSE
    ELSE IF a = <<>> THEN TRUE
    ELSE IF Head(a) = Head(b) THEN StrLess(Tail(a), Tail(b))
    ELSE CharCode(Head(a)) < CharCode(Head(b))

(***************************************************************************)
(* Syntax-tree nodes.  Every node has the same four fields.                *)
(***************************************************************************)
Node(type, name, val, kids) ==
    [type |-> type, name |-> name, val |-> val, kids |-> kids]

\* Python None where a node is expected (FunctionCall.params, Function.params).
NoneN == Node("None", "", NoneV, <<>>)

\* visit_number, visit_string: the literal is the Python value itself.
Lit(v) == Node("Literal", "", v, <<>>)

Num(k) == Lit(IntV(k))

Str(cs) == Lit(StrV(cs))

\* A matched name (function name or parameter name): a Python str.
Tok(name) == Node("Token", name, NoneV, <<>>)

\* visit_statement returns its children: a one-element Python list.
St(node) == Node("list", "", NoneV, <<node>>)

RECURSIVE StAll(_)
StAll(nodes) == IF nodes = <<>> THEN <<>> ELSE <<St(Head(nodes))>> \o StAll(Tail(nodes))

RECURSIVE Toks(_)
Toks(names) == IF names = <<>> THEN <<>> ELSE <<Tok(Head(names))>> \o Toks(Tail(names))

\* class Identifier
Identifier(name) == Node("Identifier", name, NoneV, <<>>)

\* class Assignment: name is statement.name.name, kids[1] is statement.value
Assignment(name, value) == Node("Assignment", name, NoneV, <<value>>)

\* class Comparison: kids are left, right
Comparison(left, right) == Node("Comparison", "", NoneV, <<left, right>>)

\* class Condition: kids[1] is condition, the rest is body
Condition(condition, body) == Node("Condition", "", NoneV, <<condition>> \o body)

\* class ArgList
ArgList(params) == Node("ArgList", "", NoneV, params)

\* class ParamList
ParamList(params) == Node("ParamList", "", NoneV, params)

\* class FunctionCall: kids[1] is params (an ArgList or None)
FunctionCall(name, params) == Node("FunctionCall", name, NoneV, <<params>>)

\* class Function; kind tells a Function from a callable built-in.
Function(name, params, statements) ==
    [kind |-> "Function", name |-> name, params |-> params, statements |-> statements]

Builtin(name) ==
    [kind |-> "builtin", name |-> name, params |-> NoneN, statements |-> <<>>]

\* ZVisitor.visit_function_call
visit_function_call(children) ==
    IF Len(children) = 1 THEN FunctionCall(children[1].name, NoneN)
    ELSE FunctionCall(children[1].name, children[2])

\* ZVisitor.visit_condition
visit_condition(children) == Condition(children[1], Tail(children))

\* ZVisitor.visit_function: a parameter list is recognised only when at least
\* one more child follows it.
visit_function(children) ==
    IF Len(children) > 2 /\ children[2].type = "ParamList"
    THEN Function(children[1].name, children[2], SubSeq(children, 3, Len(children)))
    ELSE Function(children[1].name, NoneN, Tail(children))

(***************************************************************************)
(* Parse trees handed to the visitor, written with the grammar's shapes.   *)
(***************************************************************************)
\* function_call: NAME "(" [arglist] ")"
Call(name, args) ==
    visit_function_call(IF args = <<>> THEN <<Tok(name)>> ELSE <<Tok(name), ArgList(args)>>)

\* condition: "if" "(" expression ")" "{" statement* "}"
If(test, body) == visit_condition(<<test>> \o StAll(body))

\* The children of a function node: NAME [paramlist] statement*
Decl(name, params, body) ==
    <<Tok(name)>> \o (IF params = <<>> THEN <<>> ELSE <<ParamList(Toks(params))>>) \o StAll(body)

RECURSIVE VisitAll(_)
VisitAll(decls) ==
    IF decls = <<>> THEN <<>> ELSE <<visit_function(Head(decls))>> \o VisitAll(Tail(decls))

(***************************************************************************)
(* The registry and the entry point (ZVisitor.visit_program, main).        *)
(***************************************************************************)
\* main(): the dictionary the visitor starts with.
Builtins ==
    [x \in {"add", "get", "not", "print"} |->
        CASE x = "add" -> Builtin("zadd")
          [] x = "get" -> Builtin("zget")
          [] x = "not" -> Builtin("znot")
          [] x = "print" -> Builtin("zprint")]

\* dict[key] = value
Bind(d, key, value) ==
    [x \in DOMAIN d \cup {key} |-> IF x = key THEN value ELSE d[x]]

\* Faulty variant of Register: an entry that exists is kept, the first
\* definition of a name wins.
RECURSIVE RegisterFirst(_, _)
RegisterFirst(fns, reg) ==
    IF fns = <<>> THEN reg
    ELSE RegisterFirst(Tail(fns),
             IF Head(fns).name \in DOMAIN reg THEN reg ELSE Bind(reg, Head(fns).name, Head(fns)))

\* The loop of visit_program over the functions: self.functions[fn.name] = fn
RECURSIVE Register(_, _)
Register(fns, reg) ==
    IF fns = <<>> THEN reg
    ELSE Register(Tail(fns), Bind(reg, Head(fns).name, Head(fns)))

\* main = None
NoFunction == [kind |-> "None", name |-> "", params |-> NoneN, statements |-> <<>>]

\* Faulty variant of MainOf: main = fn for every function, whatever its name.
MainOfAny(fns, main) == IF fns = <<>> THEN main ELSE fns[Len(fns)]

\* The loop of visit_program over the functions: main = fn when fn.name == "main"
RECURSIVE MainOf(_, _)
MainOf(fns, main) ==
    IF fns = <<>> THEN main
    ELSE MainOf(Tail(fns), IF Head(fns).name = "main" THEN Head(fns) ELSE main)

(***************************************************************************)
(* run: frames, argument handling, parameter binding.                      *)
(***************************************************************************)
\* A pending step of evaluate (or of run's loop) of one frame.
K(op, node, i, vs) == [op |-> op, node |-> node, i |-> i, vs |-> vs]

\* args = args[0] if args and args[0] != None else []
NormArgs(star) == IF star # <<>> /\ star[1].t # "none" THEN star[1].l ELSE <<>>

\* for name, value in zip(function.params.params, args): local[name] = value
RECURSIVE ZipBind(_, _, _)
ZipBind(names, values, local) ==
    IF names = <<>> \/ values = <<>> THEN local
    ELSE ZipBind(Tail(names), Tail(values), Bind(local, Head(names).name, Head(values)))

\* Faulty variant of NewLocal: the callee starts from the bindings of its caller.
NewLocalShared(function, args) ==
    ZipBind(IF args # <<>> THEN function.params.kids ELSE <<>>, args,
            IF stack = <<>> THEN <<>> ELSE stack[Len(stack)].local)

\* local = dict(), filled from the parameters when there are arguments.
NewLocal(function, args) ==
    IF args # <<>> THEN ZipBind(function.params.kids, args, <<>>) ELSE <<>>

\* The state of run(function, functions, args) as its loop starts: return_value
\* is None, i counts the statements already handed to evaluate, kont holds the
\* pending evaluate calls below the loop.  returned is history: whether line 183
\* has assigned return_value in this run.
Frame(function, args) ==
    [fn |-> function, args |-> args, local |-> NewLocal(function, args),
     return_value |-> NoneV, returned |-> FALSE, i |-> 0,
     kont |-> <<K("for", NoneN, 0, <<>>)>>]

\* Which outcome lines 156-159 of run give: "ok", "AttributeError" when
\* function.params is None, "arity" when err is called.
ArgCheck(function, args) ==
    IF args = <<>> THEN "ok"
    ELSE IF function.params.type = "None" THEN "AttributeError"
    ELSE IF Len(args) # Len(function.params.kids) THEN "arity"
    ELSE "ok"

\* Faulty variant of err: the message is printed and the run goes on.
err_noexit(msg) == [status |-> status, diag |-> Append(diag, msg)]

\* err(msg): the message is printed, then sys.exit(1).
err(msg) == [status |-> "exit", diag |-> Append(diag, msg)]

Top == stack[Len(stack)]

WithTop(f) == [stack EXCEPT ![Len(stack)] = f]

KTop == Top.kont[Len(Top.kont)]

KPop == SubSeq(Top.kont, 1, Len(Top.kont) - 1)

Eval(node) == [mode |-> "eval", node |-> node, v |-> NoneV]

Ret(v) == [mode |-> "ret", node |-> NoneN, v |-> v]

Fatal(msg) ==
    /\ status' = err(msg).status
    /\ diag' = err(msg).diag
    /\ UNCHANGED <<pid, stack, ctl, output, exc, stdin, nread>>

\* An exception of the host that nothing catches (visit_program re-raises).
Raise(e) ==
    /\ status' = "crash"
    /\ exc' = e
    /\ UNCHANGED <<pid, stack, ctl, output, diag, stdin, nread>>

\* Faulty variant of Pending: the test is `return_value is not None`, any value that
\* return has set counts.
PendingSet(frame) == frame.return_value # NoneV

\* Faulty variant of Pending: return_value is never looked at.
PendingNever(frame) == FALSE

\* if return_value: (lines 165 and 205) for the return_value of frame
Pending(frame) == Truthy(frame.return_value)

\* evaluate was called with ctl.node and passed the check of return_value.
Evaluating(type) ==
    /\ status = "running"
    /\ ctl.mode = "eval"
    /\ ~Pending(Top)
    /\ ctl.node.type = type

\* An evaluate call made for kont item op has returned ctl.v.
Returned(op) ==
    /\ status = "running"
    /\ ctl.mode = "ret"
    /\ KTop.op = op

(***************************************************************************)
(* The programs the interpreter is run on, as the parser hands them to the *)
(* visitor (each with its source text).                                    *)
(***************************************************************************)
Prt(e) == Call("print", <<e>>)

Rtn(e) == Call("return", <<e>>)

\* function main() { $x <- 5  if ($x < 10) { print("s") } }
PSmall ==
    << Decl("main", <<>>, << Assignment("$x", Num(5)),
           If(Comparison(Identifier("$x"), Num(10)), <<Prt(Str(<<"s">>))>>) >>) >>

\* function double($n) { return(add($n, $n)) }
\* function main() { print(double(1, 2)) }
PArity ==
    << Decl("double", <<"$n">>,
           << Rtn(Call("add", <<Identifier("$n"), Identifier("$n")>>)) >>),
       Decl("main", <<>>, << Prt(Call("double", <<Num(1), Num(2)>>)) >>) >>

\* function main() { print($y) }
PUndefVar == << Decl("main", <<>>, << Prt(Identifier("$y")) >>) >>

\* function main() { print(not(5 < 3)) }
PNot == << Decl("main", <<>>, << Prt(Call("not", <<Comparison(Num(5), Num(3))>>)) >>) >>

\* function main() { return(0) print("x") }
PRetZero == << Decl("main", <<>>, << Rtn(Num(0)), Prt(Str(<<"x">>)) >>) >>

\* function f() { return(2 < 1) print("a") return("") print("b") return(7) print("c") }
\* function main() { print(f()) }
PRetFalsy ==
    << Decl("f", <<>>, << Rtn(Comparison(Num(2), Num(1))), Prt(Str(<<"a">>)),
           Rtn(Str(<<>>)), Prt(Str(<<"b">>)), Rtn(Num(7)), Prt(Str(<<"c">>)) >>),
       Decl("main", <<>>, << Prt(Call("f", <<>>)) >>) >>

\* function main() { return(1) print("x") $x <- 2 }
PRetOne ==
    << Decl("main", <<>>, << Rtn(Num(1)), Prt(Str(<<"x">>)), Assignment("$x", Num(2)) >>) >>

\* (no function at all)
PEmpty == << >>

\* function f() { print("x") }
PNoMain == << Decl("f", <<>>, << Prt(Call("get", <<>>)) >>) >>

\* function f($a) { print("b") }   function main() { f() }
PZeroArgs ==
    << Decl("f", <<"$a">>, << Prt(Str(<<"b">>)) >>),
       Decl("main", <<>>, << Call("f", <<>>) >>) >>

\* function f() { print("b") }   function main() { f(1) }
PExtraArgs ==
    << Decl("f", <<>>, << Prt(Str(<<"b">>)) >>),
       Decl("main", <<>>, << Call("f", <<Num(1)>>) >>) >>

\* function main($a) { print("b") }
PMainParam == << Decl("main", <<"$a">>, << Prt(Str(<<"b">>)) >>) >>

\* function f($a) { }   function main() { print(f(1)) }
PEmptyBody1 ==
    << Decl("f", <<"$a">>, <<>>), Decl("main", <<>>, << Prt(Call("f", <<Num(1)>>)) >>) >>

\* function f($a) { }   function main() { print(f()) }
PEmptyBody0 ==
    << Decl("f", <<"$a">>, <<>>), Decl("main", <<>>, << Prt(Call("f", <<>>)) >>) >>

\* function f($a) { $x <- 2  $a <- 3  return($x) }
\* function main() { $x <- 1  $y <- f(9)  print($x)  print($y) }
PScopes ==
    << Decl("f", <<"$a">>, << Assignment("$x", Num(2)), Assignment("$a", Num(3)),
           Rtn(Identifier("$x")) >>),
       Decl("main", <<>>, << Assignment("$x", Num(1)),
           Assignment("$y", Call("f", <<Num(9)>>)),
           Prt(Identifier("$x")), Prt(Identifier("$y")) >>) >>

\* function f() { print($x) }   function main() { $x <- 1  f() }
PCallerVar ==
    << Decl("f", <<>>, << Prt(Identifier("$x")) >>),
       Decl("main", <<>>, << Assignment("$x", Num(1)), Call("f", <<>>) >>) >>

\* function f($n) { if ($n < 1) { return(1) }  $m <- f(add($n, -1))  return(add($m, $n)) }
\* function main() { print(f(2)) }
PRecursive ==
    << Decl("f", <<"$n">>, << If(Comparison(Identifier("$n"), Num(1)), <<Rtn(Num(1))>>),
           Assignment("$m", Call("f", <<Call("add", <<Identifier("$n"), Num(-1)>>)>>)),
           Rtn(Call("add", <<Identifier("$m"), Identifier("$n")>>)) >>),
       Decl("main", <<>>, << Prt(Call("f", <<Num(2)>>)) >>) >>

\* function f() { f() }   function main() { f() }
PLoop ==
    << Decl("f", <<>>, << Call("f", <<>>) >>), Decl("main", <<>>, << Call("f", <<>>) >>) >>

\* function main() { if (0) { $x <- 1 print("a") }  if ("") { print("b") }
\*                   if (1 < 0) { print("c") }  if (print("t")) { print("e") }  print($x) }
PFalsyTests ==
    << Decl("main", <<>>, <<
           If(Num(0), <<Assignment("$x", Num(1)), Prt(Str(<<"a">>))>>),
           If(Str(<<>>), <<Prt(Str(<<"b">>))>>),
           If(Comparison(Num(1), Num(0)), <<Prt(Str(<<"c">>))>>),
           If(Prt(Str(<<"t">>)), <<Prt(Str(<<"e">>))>>),
           Prt(Identifier("$x")) >>) >>

\* function main() { $x <- 1  if (1) { if ("a") { $x <- 2  $z <- 3 }  print($x) }
\*                   print($x)  print($z) }
PNested ==
    << Decl("main", <<>>, << Assignment("$x", Num(1)),
           If(Num(1), << If(Str(<<"a">>), <<Assignment("$x", Num(2)), Assignment("$z", Num(3))>>),
                         Prt(Identifier("$x")) >>),
           Prt(Identifier("$x")), Prt(Identifier("$z")) >>) >>

\* function f() { if (1) { if (1) { return(1) print("a") }  print("b") }  print("c") }
\* function main() { f()  print("m") }
PNestedRet ==
    << Decl("f", <<>>, <<
           If(Num(1), << If(Num(1), <<Rtn(Num(1)), Prt(Str(<<"a">>))>>),
                         Prt(Str(<<"b">>)) >>),
           Prt(Str(<<"c">>)) >>),
       Decl("main", <<>>, << Call("f", <<>>), Prt(Str(<<"m">>)) >>) >>

\* function f() { if (1) { return(0) print("a") }  print("c")  return(2)  print("e") }
\* function main() { $r <- f()  print($r) }
PNestedRet0 ==
    << Decl("f", <<>>, <<
           If(Num(1), <<Rtn(Num(0)), Prt(Str(<<"a">>))>>),
           Prt(Str(<<"c">>)), Rtn(Num(2)), Prt(Str(<<"e">>)) >>),
       Decl("main", <<>>, << Assignment("$r", Call("f", <<>>)), Prt(Identifier("$r")) >>) >>

\* function main() { nope(print("a")) }
PUndefFn == << Decl("main", <<>>, << Call("nope", <<Prt(Str(<<"a">>))>>) >>) >>

\* function main() { if (1) { return(1)  nope()  print($q) }  print("z") }
PSkipped ==
    << Decl("main", <<>>, <<
           If(Num(1), <<Rtn(Num(1)), Call("nope", <<>>), Prt(Identifier("$q"))>>),
           Prt(Str(<<"z">>)) >>) >>

\* function main() { print(return(1))  print("x") }
PPrintRet == << Decl("main", <<>>, << Prt(Rtn(Num(1))), Prt(Str(<<"x">>)) >>) >>

\* function f() { print("f") }   function main() { add(return(1), f()) }
PAddRet ==
    << Decl("f", <<>>, << Prt(Str(<<"f">>)) >>),
       Decl("main", <<>>, << Call("add", <<Rtn(Num(1)), Call("f", <<>>)>>) >>) >>

\* function main() { return(return(1))  print("x") }
PRetRet == << Decl("main", <<>>, << Rtn(Rtn(Num(1))), Prt(Str(<<"x">>)) >>) >>

\* function main() { print(return(1) < $y) }
PCmpRet ==
    << Decl("main", <<>>, << Prt(Comparison(Rtn(Num(1)), Identifier("$y"))) >>) >>

\* function main() { print("a")  print()  print(1 < 2)  print(-12)  print(print("")) }
PPrints ==
    << Decl("main", <<>>, << Prt(Str(<<"a">>)), Call("print", <<>>),
           Prt(Comparison(Num(1), Num(2))), Prt(Num(-12)),
           Prt(Prt(Str(<<>>))) >>) >>

\* function main() { print(add(1, 2))  print(add("a", "b"))  print(add(1 < 2, 1))  add(1, "a") }
PAdds ==
    << Decl("main", <<>>, << Prt(Call("add", <<Num(1), Num(2)>>)),
           Prt(Call("add", <<Str(<<"a">>), Str(<<"b">>)>>)),
           Prt(Call("add", <<Comparison(Num(1), Num(2)), Num(1)>>)),
           Call("add", <<Num(1), Str(<<"a">>)>>) >>) >>

\* function main() { print("a")  add() }
PAdd0 == << Decl("main", <<>>, << Prt(Str(<<"a">>)), Call("add", <<>>) >>) >>

\* function main() { print("a")  add(1)  print("b") }
PAdd1 ==
    << Decl("main", <<>>, << Prt(Str(<<"a">>)), Call("add", <<Num(1)>>), Prt(Str(<<"b">>)) >>) >>

\* function main() { print(not(0))  print(not("a"))  not()  print("b") }
PNots ==
    << Decl("main", <<>>, << Prt(Call("not", <<Num(0)>>)), Prt(Call("not", <<Str(<<"a">>)>>)),
           Call("not", <<>>), Prt(Str(<<"b">>)) >>) >>

\* function main() { $v <- get()  print($v)  print(add($v, $v))  print(get() < 5) }
PGet ==
    << Decl("main", <<>>, << Assignment("$v", Call("get", <<>>)), Prt(Identifier("$v")),
           Prt(Call("add", <<Identifier("$v"), Identifier("$v")>>)),
           Prt(Comparison(Call("get", <<>>), Num(5))) >>) >>

\* function f() { print("1") }  function f() { print("2") }
\* function main() { print("x") }  function main() { f() }
PDuplicate ==
    << Decl("f", <<>>, << Prt(Str(<<"1">>)) >>), Decl("f", <<>>, << Prt(Str(<<"2">>)) >>),
       Decl("main", <<>>, << Prt(Str(<<"x">>)) >>), Decl("main", <<>>, << Call("f", <<>>) >>) >>

\* function print($a) { return($a) }   function main() { $r <- print(5)  add($r, print(1, 2)) }
PShadow ==
    << Decl("print", <<"$a">>, << Rtn(Identifier("$a")) >>),
       Decl("main", <<>>, << Assignment("$r", Call("print", <<Num(5)>>)),
           Call("add", <<Identifier("$r"), Call("print", <<Num(1), Num(2)>>)>>) >>) >>

\* function main() { print("a" < "b")  print("b" < "ab")  print("a" < 1) }
PStrCmp ==
    << Decl("main", <<>>, << Prt(Comparison(Str(<<"a">>), Str(<<"b">>))),
           Prt(Comparison(Str(<<"b">>), Str(<<"a", "b">>))),
           Prt(Comparison(Str(<<"a">>), Num(1))) >>) >>

\* function main() { print("a")  return()  print("b") }
PRetNone ==
    << Decl("main", <<>>, << Prt(Str(<<"a">>)), Call("return", <<>>), Prt(Str(<<"b">>)) >>) >>

\* function f() { }   function main() { print(f())  print(f() < 1) }
PAbsent ==
    << Decl("f", <<>>, <<>>),
       Decl("main", <<>>, << Prt(Call("f", <<>>)),
           Prt(Comparison(Call("f", <<>>), Num(1))) >>) >>

\* function f() { $x <- 2 }   function k($a, $b) { print($a)  print($b) }
\* function main() { $x <- 0  k(not($x, f()), not($x, f()))  k(add($x, 1) < 2, add($x, 1) < 2) }
PPure ==
    << Decl("f", <<>>, << Assignment("$x", Num(2)) >>),
       Decl("k", <<"$a", "$b">>, << Prt(Identifier("$a")), Prt(Identifier("$b")) >>),
       Decl("main", <<>>, << Assignment("$x", Num(0)),
           Call("k", << Call("not", <<Identifier("$x"), Call("f", <<>>)>>),
                        Call("not", <<Identifier("$x"), Call("f", <<>>)>>) >>),
           Call("k", << Comparison(Call("add", <<Identifier("$x"), Num(1)>>), Num(2)),
                        Comparison(Call("add", <<Identifier("$x"), Num(1)>>), Num(2)) >>) >>) >>

\* function k($a, $b) { print("k") }
\* function main() { k(print("1"), print("2"))  nope(print("3"), $u) }
POrder ==
    << Decl("k", <<"$a", "$b">>, << Prt(Str(<<"k">>)) >>),
       Decl("main", <<>>, <<
           Call("k", <<Prt(Str(<<"1">>)), Prt(Str(<<"2">>))>>),
           Call("nope", <<Prt(Str(<<"3">>)), Identifier("$u")>>) >>) >>

Programs ==
    << PSmall, PArity, PUndefVar, PNot, PRetZero, PRetFalsy, PRetOne, PEmpty, PNoMain,
       PZeroArgs, PExtraArgs, PMainParam, PEmptyBody1, PEmptyBody0, PScopes, PCallerVar,
       PRecursive, PLoop, PFalsyTests, PNested, PNestedRet, PNestedRet0, PUndefFn,
       PSkipped, PPrintRet, PAddRet, PRetRet, PCmpRet, PPrints, PAdds, PAdd0, PAdd1,
       PNots, PGet, PDuplicate, PShadow, PStrCmp, PRetNone, PAbsent, PPure, POrder >>

\* The contents of standard input: the lines input() will return.
Stdins == << <<>>, << <<"7">> >>, << <<"a", "b">>, <<"-", "1", "2">> >>, << <<"0">>, <<>> >> >>

(***************************************************************************)
(* The state machine.                                                      *)
(*   pid        the program that was parsed (an index of Programs)         *)
(*   status     "parsed", "running", "done", "exit" (sys.exit(1) in err)   *)
(*              or "crash" (an exception of the host that nothing catches) *)
(*   functions  the registry, ZVisitor.functions                           *)
(*   stack      the active calls of run, the innermost last                *)
(*   ctl        evaluate is being called on a node ("eval"), or has        *)
(*              returned a value ("ret")                                   *)
(*   output     what zprint has written                                    *)
(*   diag       the messages err has printed                               *)
(*   exc        the exception that ended the run, if any                   *)
(*   stdin      the lines input() has not read yet, nread those it has     *)
(***************************************************************************)
Init ==
    /\ pid \in 1..Len(Programs)
    /\ status = "parsed"
    /\ functions = Builtins
    /\ stack = <<>>
    /\ ctl = Ret(NoneV)
    /\ output = <<>>
    /\ diag = <<>>
    /\ exc = ""
    /\ stdin \in {Stdins[k] : k \in 1..Len(Stdins)}
    /\ nread = 0

\* run, lines 154-161, for a Function called with args above the frames
\* `below`; then its loop starts.
EnterRun(function, args, below) ==
    IF Len(below) >= StackLimit THEN Raise("RecursionError")
    ELSE IF ArgCheck(function, args) = "AttributeError" THEN Raise("AttributeError")
    ELSE IF ArgCheck(function, args) = "arity"
    THEN Fatal(<<"Incorrect number of arguments to function", function.name>>)
    ELSE /\ stack' = Append(below, Frame(function, args))
         /\ ctl' = Ret(NoneV)
         /\ status' = "running"
         /\ UNCHANGED <<pid, output, diag, exc, stdin, nread>>

\* ZVisitor.visit_program
VisitProgram ==
    /\ status = "parsed"
    /\ LET fns == VisitAll(Programs[pid])
           main == MainOf(fns, NoFunction)
       IN  /\ functions' = Register(fns, functions)
           /\ IF main.kind = "None"
              THEN Fatal(<<"Program needs a main function.", "">>)
              ELSE EnterRun(main, NormArgs(<<>>), <<>>)

\* Faulty variant of Handed: the loop does not move on, the same statement is handed
\* to evaluate again.
HandedAgain(frame) == frame

\* for statement in function.statements: the loop has moved to the next statement.
Handed(frame) == [frame EXCEPT !.i = frame.i + 1]

\* run, lines 202-204: the loop hands the next statement to evaluate.
ForNext ==
    /\ Returned("for")
    /\ ~(Top.i > 0 /\ Pending(Top))
    /\ Top.i < Len(Top.fn.statements)
    /\ UNCHANGED functions
    /\ LET statement == Top.fn.statements[Top.i + 1]
       IN  IF statement.type # "list" THEN Raise("TypeError")
           ELSE /\ stack' = WithTop(Handed(Top))
                /\ ctl' = Eval(statement.kids[1])
                /\ UNCHANGED <<pid, status, output, diag, exc, stdin, nread>>

\* Faulty variant of AfterReturn: return_value is one variable shared by all runs.
AfterReturnShared(stk) ==
    IF Len(stk) < 2 THEN <<>>
    ELSE [SubSeq(stk, 1, Len(stk) - 1) EXCEPT
             ![Len(stk) - 1].return_value = stk[Len(stk)].return_value]

\* Faulty variant of AfterReturn: local is one dictionary shared by all runs, what the
\* callee has bound is bound in its caller.
AfterReturnLeak(stk) ==
    IF Len(stk) < 2 THEN <<>>
    ELSE LET callee == stk[Len(stk)].local
             caller == stk[Len(stk) - 1].local
         IN  [SubSeq(stk, 1, Len(stk) - 1) EXCEPT ![Len(stk) - 1].local =
                 [x \in DOMAIN caller \cup DOMAIN callee |->
                     IF x \in DOMAIN callee THEN callee[x] ELSE caller[x]]]

\* The frames once the innermost run has returned: its local and its
\* return_value go with it.
AfterReturn(stk) == SubSeq(stk, 1, Len(stk) - 1)

\* run, lines 205-209: the loop breaks or is exhausted, run returns return_value.
RunReturn ==
    /\ Returned("for")
    /\ (Top.i > 0 /\ Pending(Top)) \/ Top.i >= Len(Top.fn.statements)
    /\ stack' = AfterReturn(stack)
    /\ ctl' = Ret(Top.return_value)
    /\ status' = IF Len(stack) = 1 THEN "done" ELSE "running"
    /\ UNCHANGED <<pid, functions, output, diag, exc, stdin, nread>>

\* evaluate, lines 165-166
EvalGuard ==
    /\ status = "running"
    /\ ctl.mode = "eval"
    /\ Pending(Top)
    /\ ctl' = Ret(NoneV)
    /\ UNCHANGED <<pid, status, functions, stack, output, diag, exc, stdin, nread>>

\* evaluate calls itself on node; item is what it does with the result.
Descend(item, node) ==
    /\ stack' = WithTop([Top EXCEPT !.kont = Append(Top.kont, item)])
    /\ ctl' = Eval(node)
    /\ UNCHANGED <<pid, status, functions, output, diag, exc, stdin, nread>>

\* evaluate returns v to the evaluate call (or the loop) that called it.
Ascend(v) ==
    /\ stack' = WithTop([Top EXCEPT !.kont = KPop])
    /\ ctl' = Ret(v)
    /\ UNCHANGED <<pid, status, functions, output, diag, exc, stdin, nread>>

\* evaluate, lines 168-169: the value of an Assignment is evaluated first.
EvalAssignment ==
    /\ Evaluating("Assignment")
    /\ Descend(K("assign", ctl.node, 0, <<>>), ctl.node.kids[1])

\* Faulty variant of Store: a name first assigned inside a Condition body is local to
\* that body.
StoreBlock(frame, name, value) ==
    IF (\E k \in 1..Len(frame.kont) : frame.kont[k].op = "body") /\ name \notin DOMAIN frame.local
    THEN frame
    ELSE [frame EXCEPT !.local = Bind(frame.local, name, value)]

\* Faulty variant of Store: the first binding of a name is kept.
StoreFirst(frame, name, value) ==
    IF name \in DOMAIN frame.local THEN frame
    ELSE [frame EXCEPT !.local = Bind(frame.local, name, value)]

\* local[statement.name.name] = value, in the frame `frame`
Store(frame, name, value) == [frame EXCEPT !.local = Bind(frame.local, name, value)]

\* evaluate, lines 169-170
AssignStore ==
    /\ Returned("assign")
    /\ stack' = WithTop([Store(Top, KTop.node.name, ctl.v) EXCEPT !.kont = KPop])
    /\ ctl' = Ret(NoneV)
    /\ UNCHANGED <<pid, status, functions, output, diag, exc, stdin, nread>>

\* evaluate, line 173: the left operand
EvalComparison ==
    /\ Evaluating("Comparison")
    /\ Descend(K("cmpL", ctl.node, 0, <<>>), ctl.node.kids[1])

\* evaluate, line 173: the right operand
CmpLeft ==
    /\ Returned("cmpL")
    /\ stack' = WithTop([Top EXCEPT !.kont = Append(KPop, K("cmpR", KTop.node, 0, <<ctl.v>>))])
    /\ ctl' = Eval(KTop.node.kids[2])
    /\ UNCHANGED <<pid, status, functions, output, diag, exc, stdin, nread>>

\* Whether Python's < is defined between the two values.
Comparable(a, b) ==
    \/ IsNum(a) /\ IsNum(b)
    \/ a.t = "str" /\ b.t = "str"

\* a < b
Less(a, b) == IF a.t = "str" THEN StrLess(a.s, b.s) ELSE a.n < b.n

\* evaluate, line 173: the comparison itself
CmpRight ==
    /\ Returned("cmpR")
    /\ UNCHANGED functions
    /\ IF Comparable(KTop.vs[1], ctl.v)
       THEN Ascend(BoolV(Less(KTop.vs[1], ctl.v)))
       ELSE Raise("TypeError")

\* evaluate, line 176: the test of a Condition
EvalCondition ==
    /\ Evaluating("Condition")
    /\ Descend(K("test", ctl.node, 0, <<>>), ctl.node.kids[1])

\* Faulty variant of Branch: only None skips the body.
BranchNone(v) == IF v.t = "none" THEN "skip" ELSE "body"

\* What evaluate does once the test of a Condition has the value v: "skip"
\* (line 177) or "body" (lines 178-179).
Branch(v) == IF ~Truthy(v) THEN "skip" ELSE "body"

\* evaluate, lines 176-177
CondTest ==
    /\ Returned("test")
    /\ IF Branch(ctl.v) = "skip"
       THEN Ascend(NoneV)
       ELSE /\ stack' = WithTop([Top EXCEPT !.kont = Append(KPop, K("body", KTop.node, 0, <<>>))])
            /\ ctl' = Ret(NoneV)
            /\ UNCHANGED <<pid, status, functions, output, diag, exc, stdin, nread>>

\* The body of a Condition node
Body(node) == Tail(node.kids)

\* evaluate, lines 178-179, then line 199 once the body is exhausted
CondBody ==
    /\ Returned("body")
    /\ IF KTop.i < Len(Body(KTop.node))
       THEN /\ stack' = WithTop([Top EXCEPT !.kont = Append(KPop, [KTop EXCEPT !.i = KTop.i + 1])])
            /\ ctl' = Eval(Body(KTop.node)[KTop.i + 1].kids[1])
            /\ UNCHANGED <<pid, status, functions, output, diag, exc, stdin, nread>>
       ELSE Ascend(ObjV("Condition"))

\* evaluate, lines 182-183: the argument list of return
EvalReturn ==
    /\ Evaluating("FunctionCall")
    /\ ctl.node.name = "return"
    /\ Descend(K("return", ctl.node, 0, <<>>), ctl.node.kids[1])

\* evaluate, lines 183-184
ReturnSet ==
    /\ Returned("return")
    /\ UNCHANGED functions
    /\ IF ctl.v.t # "list" THEN Raise("TypeError")
       ELSE /\ stack' = WithTop([Top EXCEPT !.return_value = ctl.v.l[1],
                                             !.returned = TRUE, !.kont = KPop])
            /\ ctl' = Ret(NoneV)
            /\ UNCHANGED <<pid, status, output, diag, exc, stdin, nread>>

\* Faulty variant of Defined: only the functions of the program count.
DefinedUser(name) == name \in DOMAIN functions /\ functions[name].kind = "Function"

\* statement.name in functions
Defined(name) == name \in DOMAIN functions

\* evaluate, lines 186-188: the callee is looked up, then the arguments are
\* evaluated.
EvalCall ==
    /\ Evaluating("FunctionCall")
    /\ ctl.node.name # "return"
    /\ IF ~Defined(ctl.node.name)
       THEN Fatal(<<"Undefined function", ctl.node.name>>) /\ UNCHANGED functions
       ELSE Descend(K("call", ctl.node, 0, <<>>), ctl.node.kids[1])

\* evaluate, lines 190-193
EvalIdentifier ==
    /\ Evaluating("Identifier")
    /\ UNCHANGED functions
    /\ IF ctl.node.name \in DOMAIN Top.local
       THEN /\ ctl' = Ret(Top.local[ctl.node.name])
            /\ UNCHANGED <<pid, status, stack, output, diag, exc, stdin, nread>>
       ELSE Fatal(<<"Undefined variable", ctl.node.name>>)

\* evaluate, lines 195-197: list(map(evaluate, statement.params))
EvalArgList ==
    /\ Evaluating("ArgList")
    /\ stack' = WithTop([Top EXCEPT !.kont = Append(Top.kont, K("args", ctl.node, 0, <<>>))])
    /\ ctl' = Ret(NoneV)
    /\ UNCHANGED <<pid, status, functions, output, diag, exc, stdin, nread>>

\* Faulty variant of ArgAt: the arguments are taken from the last to the first.
ArgAtReversed(node, i) == node.kids[Len(node.kids) + 1 - i]

\* map(evaluate, statement.params): the i-th expression handed to evaluate
ArgAt(node, i) == node.kids[i]

\* evaluate, lines 196-197: the next argument, or the finished list
ArgNext ==
    /\ Returned("args")
    /\ LET acc == IF KTop.i = 0 THEN <<>> ELSE Append(KTop.vs, ctl.v)
       IN  IF KTop.i < Len(KTop.node.kids)
           THEN /\ stack' = WithTop([Top EXCEPT !.kont =
                        Append(KPop, K("args", KTop.node, KTop.i + 1, acc))])
                /\ ctl' = Eval(ArgAt(KTop.node, KTop.i + 1))
                /\ UNCHANGED <<pid, status, functions, output, diag, exc, stdin, nread>>
           ELSE Ascend(ListV(acc))

\* evaluate, line 199: anything else is its own value.
EvalLiteral ==
    /\ status = "running"
    /\ ctl.mode = "eval"
    /\ ~Pending(Top)
    /\ ctl.node.type \in {"Literal", "None"}
    /\ ctl' = Ret(ctl.node.val)
    /\ UNCHANGED <<pid, status, functions, stack, output, diag, exc, stdin, nread>>

(***************************************************************************)
(* Calls: run, lines 146-152, and the built-ins.                           *)
(***************************************************************************)
\* The arguments of the call have been evaluated and functions[name] is callee.
Calling(kind, name) ==
    /\ Returned("call")
    /\ functions[KTop.node.name].kind = kind
    /\ functions[KTop.node.name].name = name

\* The args of run for the call whose argument list evaluated to ctl.v.
CallArgs == NormArgs(<<ctl.v>>)

\* run, lines 154-161, for a call of a Function.
CallFunction ==
    /\ Returned("call")
    /\ functions[KTop.node.name].kind = "Function"
    /\ UNCHANGED functions
    /\ EnterRun(functions[KTop.node.name], CallArgs, WithTop([Top EXCEPT !.kont = KPop]))

\* The value zget makes of a line.
Parsed(content) == IF IntParses(content) THEN IntV(IntParse(content)) ELSE StrV(content)

\* zget
CallZget ==
    /\ Calling("builtin", "zget")
    /\ UNCHANGED functions
    /\ IF stdin = <<>> THEN Raise("EOFError")
       ELSE /\ stdin' = Tail(stdin)
            /\ nread' = nread + 1
            /\ stack' = WithTop([Top EXCEPT !.kont = KPop])
            /\ ctl' = Ret(Parsed(Head(stdin)))
            /\ UNCHANGED <<pid, status, output, diag, exc>>

\* str(output), and "true"/"false" for a bool
Display(v) ==
    CASE v.t = "bool" -> IF v.n # 0 THEN <<"t", "r", "u", "e">> ELSE <<"f", "a", "l", "s", "e">>
      [] v.t = "int" -> IntText(v.n)
      [] v.t = "str" -> v.s
      [] v.t = "none" -> <<"N", "o", "n", "e">>
      [] OTHER -> <<"<", ">">>

\* Faulty variant of Written: print(output) without end="", the host's print ends the
\* line after the text.
WrittenLn(args) == IF args = <<>> THEN <<"\n">> ELSE Display(args[1]) \o <<"\n">>

\* What zprint(*args) writes.
Written(args) == IF args = <<>> THEN <<"\n">> ELSE Display(args[1])

\* zprint
CallZprint ==
    /\ Calling("builtin", "zprint")
    /\ output' = output \o Written(CallArgs)
    /\ stack' = WithTop([Top EXCEPT !.kont = KPop])
    /\ ctl' = Ret(NoneV)
    /\ UNCHANGED <<pid, status, functions, diag, exc, stdin, nread>>

\* znot
CallZnot ==
    /\ Calling("builtin", "znot")
    /\ UNCHANGED functions
    /\ IF CallArgs = <<>> THEN Fatal(<<"No arguments provided to function not.", "">>)
       ELSE Ascend(BoolV(~Truthy(CallArgs[1])))

\* Whether Python's + is defined between the two values.
Addable(a, b) ==
    \/ IsNum(a) /\ IsNum(b)
    \/ a.t = "str" /\ b.t = "str"

\* a + b
Sum(a, b) == IF a.t = "str" THEN StrV(a.s \o b.s) ELSE IntV(a.n + b.n)

\* zadd
CallZadd ==
    /\ Calling("builtin", "zadd")
    /\ UNCHANGED functions
    /\ IF CallArgs = <<>> THEN Fatal(<<"No arguments provided to function add.", "">>)
       ELSE IF Len(CallArgs) < 2 THEN Raise("IndexError")
       ELSE IF ~Addable(CallArgs[1], CallArgs[2]) THEN Raise("TypeError")
       ELSE Ascend(Sum(CallArgs[1], CallArgs[2]))

Next ==
    \/ VisitProgram
    \/ ForNext
    \/ RunReturn
    \/ EvalGuard
    \/ EvalAssignment
    \/ AssignStore
    \/ EvalComparison
    \/ CmpLeft
    \/ CmpRight
    \/ EvalCondition
    \/ CondTest
    \/ CondBody
    \/ EvalReturn
    \/ ReturnSet
    \/ EvalCall
    \/ EvalIdentifier
    \/ EvalArgList
    \/ ArgNext
    \/ EvalLiteral
    \/ CallFunction
    \/ CallZget
    \/ CallZprint
    \/ CallZnot
    \/ CallZadd

Spec == Init /\ [][Next]_vars

\* The interpreter is one sequential process that runs until it exits: a step
\* that can be taken is taken.
FairSpec == Init /\ [][Next]_vars /\ WF_vars(Next)

(***************************************************************************)
(* Properties.                                                             *)
(***************************************************************************)
Running == status = "running" /\ stack # <<>>

\* The innermost run hands a statement (of the function body or of a Condition
\* body) to evaluate, and evaluate will pass its check of return_value.
StatementStarts ==
    /\ Running
    /\ ctl.mode = "ret"
    /\ \/ KTop.op = "for" /\ ForNext
       \/ KTop.op = "body" /\ KTop.i < Len(Body(KTop.node)) /\ ~Truthy(Top.return_value) /\ CondBody

\* C1: once a return call has been executed in an invocation, no later
\* statement of that invocation is executed, whatever the value returned.
C1_ReturnEndsInvocation == [][(Running /\ Top.returned) => ~StatementStarts]_vars

\* The declarations of the program in source order, and whether one is main.
Decls == Programs[pid]

HasMain == \E k \in 1..Len(Decls) : Decls[k][1].name = "main"

\* The last declaration of a name, and the number of parameters it declares.
DeclOf(name) ==
    LET ks == {k \in 1..Len(Decls) : Decls[k][1].name = name}
    IN  Decls[CHOOSE k \in ks : \A j \in ks : j <= k]

DeclaredParams(name) ==
    LET d == DeclOf(name)
    IN  IF Len(d) >= 2 /\ d[2].type = "ParamList" THEN Len(d[2].kids) ELSE 0

\* The step ends the run in the arity error naming the function; nothing of the
\* callee has run.
ArityFailure(name) ==
    /\ status' = "exit"
    /\ diag' = Append(diag, <<"Incorrect number of arguments to function", name>>)
    /\ output' = output
    /\ stack' = stack

\* C2: every invocation of a user function, the entry invocation of main
\* included, with a number of arguments other than the number of declared
\* parameters ends the run in the arity error naming the function, before any
\* statement of the callee.
C2_ArityEnforced ==
    [][/\ (status = "parsed" /\ HasMain /\ DeclaredParams("main") # 0) => ArityFailure("main")
       /\ (/\ Running
           /\ ctl.mode = "ret"
           /\ KTop.op = "call"
           /\ functions[KTop.node.name].kind = "Function"
           /\ Len(stack) < StackLimit
           /\ Len(CallArgs) # DeclaredParams(KTop.node.name))
          => ArityFailure(KTop.node.name)]_vars

\* The names a Function binds at its call.
ParamNames(function) ==
    IF function.params.type = "None" THEN {}
    ELSE {function.params.kids[k].name : k \in 1..Len(function.params.kids)}

\* C3: a step changes no binding of a frame other than the innermost one, a
\* call leaves the scope of its caller as it is and starts the callee with
\* bindings for its own parameters only, and an Identifier that the innermost
\* scope does not bind is the undefined-variable error, whatever the scopes
\* of the callers bind.
C3_ScopesAreOwned ==
    [][Running =>
        /\ \A k \in 1..Len(stack) :
              (k <= Len(stack') /\ (k < Len(stack) \/ Len(stack') # Len(stack)))
                  => stack'[k].local = stack[k].local
        /\ Len(stack') = Len(stack) + 1
              => DOMAIN stack'[Len(stack')].local \subseteq ParamNames(stack'[Len(stack')].fn)
        /\ (Evaluating("Identifier") /\ ctl.node.name \notin DOMAIN Top.local)
              => /\ status' = "exit"
                 /\ diag' = Append(diag, <<"Undefined variable", ctl.node.name>>)]_vars

\* A callee has bound $x while its caller holds another value for $x.
C3_Witness ==
    /\ Running
    /\ Len(stack) >= 2
    /\ "$x" \in DOMAIN Top.local
    /\ "$x" \in DOMAIN stack[Len(stack) - 1].local
    /\ Top.local["$x"] # stack[Len(stack) - 1].local["$x"]

\* C4: when a run returns to its caller, the frame of the caller (its pending
\* return value, its scope, its position) is what it was, and the value of
\* the call is the return_value of the callee; and whatever value a statement
\* has produced, the loop of a run with no truthy return value of its own
\* goes on with the statement that follows.
C4_ReturnStopsCalleeOnly ==
    [][/\ (Running /\ Len(stack) >= 2 /\ Len(stack') = Len(stack) - 1) =>
           /\ stack'[Len(stack')] = stack[Len(stack) - 1]
           /\ ctl' = Ret(Top.return_value)
           /\ status' = "running"
       /\ (/\ Running
           /\ ctl.mode = "ret"
           /\ KTop.op = "for"
           /\ ~Truthy(Top.return_value)
           /\ Top.i < Len(Top.fn.statements)
           /\ Top.fn.statements[Top.i + 1].type = "list") =>
           /\ ctl' = Eval(Top.fn.statements[Top.i + 1].kids[1])
           /\ stack' = WithTop([Top EXCEPT !.i = Top.i + 1])]_vars

\* main, whose first statement f() has just returned 1 from a return inside f,
\* has no pending return value and a second statement to go on with.
C4_Witness ==
    /\ Running
    /\ Len(stack) = 1
    /\ ctl = Ret(IntV(1))
    /\ KTop.op = "for"
    /\ Top.i = 1
    /\ Top.fn.statements[1].kids[1].type = "FunctionCall"
    /\ Len(Top.fn.statements) = 2
    /\ Top.return_value = NoneV

\* C5: once err has printed a message, or the run has ended in sys.exit or in
\* an uncaught exception, no step follows: nothing is executed, written or
\* read.
C5_FatalIsTerminal == [][diag = <<>> /\ status \notin {"exit", "crash"}]_vars

\* The run has ended in an error detected two calls deep.
C5_Witness == status = "exit" /\ diag # <<>> /\ Len(stack) >= 2

\* The falsy values: Absent, numeric zero, boolean false, the empty string.
Falsy(v) == v \in {NoneV, IntV(0), BoolV(FALSE), StrV(<<>>)}

\* C6: when the test of a Condition has evaluated to a falsy value, the
\* Condition is over at once: evaluate returns, and the scope, the pending
\* return value, the output and what was read are those left by the test.
C6_FalsyTestSkipsBody ==
    [][(Running /\ ctl.mode = "ret" /\ KTop.op = "test" /\ Falsy(ctl.v)) =>
        /\ stack' = WithTop([Top EXCEPT !.kont = KPop])
        /\ ctl' = Ret(NoneV)
        /\ <<status, output, diag, stdin, nread, functions>>'
               = <<status, output, diag, stdin, nread, functions>>]_vars

\* A Condition statement whose test print("t") wrote t and gave Absent has
\* returned without running its body.
C6_Witness ==
    /\ Running
    /\ ctl = Ret(NoneV)
    /\ KTop.op = "for"
    /\ Top.i >= 1
    /\ Top.fn.statements[Top.i].kids[1].type = "Condition"
    /\ Top.fn.statements[Top.i].kids[1].kids[1].type = "FunctionCall"
    /\ ~Truthy(Top.return_value)
    /\ output = <<"t">>

\* The frame is inside the body of a Condition.
InBody(frame) == \E k \in 1..Len(frame.kont) : frame.kont[k].op = "body"

\* C7: the body of a Condition with a truthy test runs statement by statement,
\* in order, in the frame of the enclosing invocation: entering, running and
\* leaving the body neither adds a frame nor changes a binding, and an
\* Assignment inside a body, however deep, binds its name in that frame.
C7_BodyRunsInEnclosingScope ==
    [][(Running /\ ctl.mode = "ret") =>
        /\ (KTop.op = "test" /\ ~Falsy(ctl.v)) =>
              /\ Len(stack') = Len(stack)
              /\ stack'[Len(stack)].local = Top.local
              /\ stack'[Len(stack)].kont = Append(KPop, K("body", KTop.node, 0, <<>>))
        /\ KTop.op = "body" =>
              /\ Len(stack') = Len(stack)
              /\ stack'[Len(stack)].local = Top.local
              /\ KTop.i < Len(Body(KTop.node)) =>
                    /\ ctl' = Eval(Body(KTop.node)[KTop.i + 1].kids[1])
                    /\ stack'[Len(stack)].kont = Append(KPop, [KTop EXCEPT !.i = KTop.i + 1])
        /\ (KTop.op = "assign" /\ InBody(Top)) =>
              /\ Len(stack') = Len(stack)
              /\ stack'[Len(stack)].local = Bind(Top.local, KTop.node.name, ctl.v)]_vars

\* After a Condition nested in a Condition, the statements of main see $x as
\* overwritten and $z as first bound two Conditions deep.
C7_Witness ==
    /\ Running
    /\ ctl = Ret(ObjV("Condition"))
    /\ KTop.op = "for"
    /\ "$x" \in DOMAIN Top.local
    /\ "$z" \in DOMAIN Top.local
    /\ Top.local["$x"] = IntV(2)
    /\ Top.local["$z"] = IntV(3)

\* C8: a program that declares no main ends in the missing-entry-point error:
\* no run was started, nothing was written, nothing was read.
C8_NoMainNoExecution ==
    (status # "parsed" /\ ~HasMain) =>
        /\ status = "exit"
        /\ diag = << <<"Program needs a main function.", "">> >>
        /\ stack = <<>>
        /\ output = <<>>
        /\ nread = 0
        /\ stdin \in {Stdins[k] : k \in 1..Len(Stdins)}
        /\ exc = ""

\* A program with a function, but none named main, has ended in the error.
C8_Witness == status = "exit" /\ ~HasMain /\ Decls # <<>> /\ stdin # <<>>

\* The bindings a call gives the callee: each parameter name with the argument
\* at its (last) position.
Passed(function, args) ==
    [x \in ParamNames(function) |->
        args[CHOOSE k \in 1..Len(args) :
                /\ function.params.kids[k].name = x
                /\ \A j \in 1..Len(args) : function.params.kids[j].name = x => j <= k]]

\* C9: an Identifier that evaluate reaches (no truthy return value is pending,
\* line 165) evaluates to the binding of its name in the scope of the
\* innermost invocation and is the undefined-variable error naming it when
\* there is none; a scope starts as the parameters bound to the arguments, and
\* it changes when an Assignment completes, which binds its name to the value
\* just evaluated, and at no other step (so an Assignment in a body that is
\* skipped binds nothing).
C9_IdentifierReadsLatestBinding ==
    [][Running =>
        /\ Evaluating("Identifier") =>
              IF ctl.node.name \in DOMAIN Top.local
              THEN ctl' = Ret(Top.local[ctl.node.name]) /\ status' = "running" /\ stack' = stack
              ELSE /\ status' = "exit"
                   /\ diag' = Append(diag, <<"Undefined variable", ctl.node.name>>)
        /\ (ctl.mode = "ret" /\ KTop.op = "assign") =>
              /\ Len(stack') = Len(stack)
              /\ stack'[Len(stack)].local = Bind(Top.local, KTop.node.name, ctl.v)
        /\ (Len(stack') = Len(stack) /\ stack'[Len(stack)].local # Top.local) =>
              (ctl.mode = "ret" /\ KTop.op = "assign")
        /\ (Len(stack') = Len(stack) + 1 /\ CallArgs # <<>>) =>
              stack'[Len(stack')].local = Passed(stack'[Len(stack')].fn, CallArgs)
        /\ (Len(stack') = Len(stack) + 1 /\ CallArgs = <<>>) =>
              stack'[Len(stack')].local = <<>>]_vars

\* $x, assigned 1 and then 2, has just been read as 2.
C9_Witness ==
    /\ Running
    /\ ctl = Ret(IntV(2))
    /\ KTop.op = "args"
    /\ "$x" \in DOMAIN Top.local
    /\ Top.local["$x"] = IntV(2)
    /\ Top.fn.statements[1].kids[1] = Assignment("$x", Num(1))

BuiltinNames == {"add", "not", "print", "get"}

\* C10: a call of a name other than return that evaluate reaches (no truthy
\* return value is pending, line 165) is the undefined-function error exactly
\* when the registry has no entry for the name, no other step reports that
\* error, and the registry always has entries for add, not, print and get.
C10_UndefinedFunction ==
    [][/\ BuiltinNames \subseteq DOMAIN functions
       /\ BuiltinNames \subseteq DOMAIN functions'
       /\ (Running /\ Evaluating("FunctionCall") /\ ctl.node.name # "return") =>
             ((ctl.node.name \notin DOMAIN functions)
                 <=> (/\ status' = "exit"
                      /\ diag' = Append(diag, <<"Undefined function", ctl.node.name>>)))
       /\ (diag' # diag /\ diag'[Len(diag')][1] = "Undefined function") =>
             /\ Running
             /\ Evaluating("FunctionCall")
             /\ ctl.node.name \notin DOMAIN functions]_vars

\* A call of a name that no declaration and no built-in defines has ended the
\* run.
C10_Witness ==
    /\ status = "exit"
    /\ diag = << <<"Undefined function", "nope">> >>
    /\ "nope" \notin DOMAIN functions

(***************************************************************************)
(* C11: duplicate declarations.                                            *)
(***************************************************************************)
DeclaredNames == {Decls[k][1].name : k \in 1..Len(Decls)}

\* C11: once visit_program has built the registry, every declared name maps
\* to the Function built from the last declaration of that name (a built-in
\* name included), every other name keeps the entry main() started with, and
\* the outermost invocation is the last declaration named main.
C11_LastDefinitionWins ==
    status # "parsed" =>
        /\ DOMAIN functions = DeclaredNames \cup BuiltinNames
        /\ \A name \in DeclaredNames : functions[name] = visit_function(DeclOf(name))
        /\ \A name \in BuiltinNames \ DeclaredNames : functions[name] = Builtins[name]
        /\ (HasMain /\ status = "running") => stack # <<>>
        /\ stack # <<>> => stack[1].fn = visit_function(DeclOf("main"))

\* Two declarations of f and two of main have been registered, the second
\* main runs and has called the second f, which has printed.
C11_Witness ==
    /\ Running
    /\ \E j, k \in 1..Len(Decls) : j < k /\ Decls[j][1].name = "main" /\ Decls[k][1].name = "main"
    /\ \E j, k \in 1..Len(Decls) :
           /\ j < k /\ Decls[j][1].name = Decls[k][1].name
           /\ Decls[j] # Decls[k]
           /\ functions[Decls[k][1].name] = visit_function(Decls[k])
           /\ Len(stack) = 2 /\ Top.fn = visit_function(Decls[k])
    /\ output = <<"2">>

(***************************************************************************)
(* C12: what print writes.                                                 *)
(***************************************************************************)
\* The call whose arguments have been evaluated is a call of the built-in print.
PrintCall ==
    /\ Running
    /\ ctl.mode = "ret"
    /\ KTop.op = "call"
    /\ KTop.node.name \in DOMAIN functions
    /\ functions[KTop.node.name] = Builtin("zprint")

\* text is the display form of v: true or false for a Boolean, the characters
\* of a string, the decimal numeral of an integer (the numeral reads back as
\* the integer, has no sign unless negative and no leading zero), None for the
\* absent value; the form of any other object holds no newline.
ShownAs(v, text) ==
    CASE v.t = "bool" -> text = (IF v.n = 1 THEN <<"t", "r", "u", "e">> ELSE <<"f", "a", "l", "s", "e">>)
      [] v.t = "str" -> text = v.s
      [] v.t = "int" ->
            /\ IntParses(text) /\ IntParse(text) = v.n
            /\ (text[1] = "-") = (v.n < 0)
            /\ LET ds == IF v.n < 0 THEN Tail(text) ELSE text
               IN  ds # <<>> /\ (ds[1] = "0" => Len(ds) = 1)
      [] v.t = "none" -> text = <<"N", "o", "n", "e">>
      [] OTHER -> \A k \in 1..Len(text) : text[k] # "\n"

\* What a step has added to the output.
Added == SubSeq(output', Len(output) + 1, Len(output'))

\* A step only extends the output, and only a call of print extends it.
OnlyPrintWrites ==
    /\ Len(output') >= Len(output)
    /\ SubSeq(output', 1, Len(output)) = output
    /\ ~PrintCall => output' = output

BuiltinCall(fn) ==
    /\ Running
    /\ ctl.mode = "ret"
    /\ KTop.op = "call"
    /\ KTop.node.name \in DOMAIN functions
    /\ functions[KTop.node.name] = Builtin(fn)

\* The step ends the run in a reported error: one message more, the exit of
\* err, and no value handed back to the caller.
ArgumentFailure ==
    /\ status' = "exit"
    /\ Len(diag') = Len(diag) + 1
    /\ exc' = exc
    /\ ctl' = ctl /\ stack' = stack /\ output' = output

\* C13: add with fewer than two arguments and not without argument end the
\* run in the reported argument error and return nothing; add of two numbers
\* or of two strings returns their sum, not of a value returns whether the
\* value is falsy.
C13_BuiltinArgumentErrors ==
    [][/\ (BuiltinCall("zadd") /\ Len(CallArgs) < 2) => ArgumentFailure
       /\ (BuiltinCall("znot") /\ Len(CallArgs) < 1) => ArgumentFailure
       /\ (BuiltinCall("zadd") /\ Len(CallArgs) >= 2) =>
             LET a == CallArgs[1]
                 b == CallArgs[2]
             IN  /\ (a.t \in {"int", "bool"} /\ b.t \in {"int", "bool"}) =>
                        ctl' = Ret(IntV(a.n + b.n)) /\ status' = "running"
                 /\ (a.t = "str" /\ b.t = "str") =>
                        ctl' = Ret(StrV(a.s \o b.s)) /\ status' = "running"
       /\ (BuiltinCall("znot") /\ Len(CallArgs) >= 1) =>
             ctl' = Ret(BoolV(Falsy(CallArgs[1]))) /\ status' = "running"]_vars

(***************************************************************************)
(* C14: termination.                                                       *)
(***************************************************************************)
\* The names of the functions called in a node.
RECURSIVE CalledIn(_)
CalledIn(node) ==
    (IF node.type = "FunctionCall" THEN {node.name} ELSE {})
        \cup UNION {CalledIn(node.kids[k]) : k \in 1..Len(node.kids)}

\* The names called in the body of the last declaration of name.
CallsOf(name) ==
    IF name \notin DeclaredNames THEN {}
    ELSE LET d == DeclOf(name) IN UNION {CalledIn(d[k]) : k \in 2..Len(d)}

\* The names reached from the names in S by at most n more calls.
RECURSIVE Reach(_, _)
Reach(S, n) == IF n = 0 THEN S ELSE Reach(S \cup UNION {CallsOf(x) : x \in S}, n - 1)

\* No declared function calls itself, directly or through others.
NoRecursion == \A name \in DeclaredNames : name \notin Reach(CallsOf(name), Len(Decls))

MainParameterless == HasMain /\ DeclaredParams("main") = 0

\* The run is over: main has returned, err has exited, or an exception of the
\* host has ended the process.
Terminated == status \in {"done", "exit", "crash"}

\* C14: the run of a program whose main has no parameters and whose functions
\* do not call themselves, directly or through others, comes to its end.
C14_Terminates == (NoRecursion /\ MainParameterless) ~> Terminated

\* A program without recursion whose main calls a declared function has
\* written output and has run to its end.
C14_Witness ==
    /\ NoRecursion /\ MainParameterless
    /\ status = "done"
    /\ output # <<>>
    /\ \E name \in DeclaredNames \ {"main"} : name \in CallsOf("main")

(***************************************************************************)
(* C15: evaluating a pure expression twice.                                *)
(***************************************************************************)
\* node holds no call of print, get or return, and neither do the bodies of
\* the functions it calls, followed through at most d calls.
RECURSIVE PureIn(_, _)
PureIn(node, d) ==
    /\ node.type = "FunctionCall" =>
          /\ node.name # "return"
          /\ node.name \in DOMAIN functions =>
                LET callee == functions[node.name]
                IN  IF callee.kind = "builtin" THEN callee.name \in {"zadd", "znot"}
                    ELSE /\ d > 0
                         /\ \A k \in 1..Len(callee.statements) :
                                PureIn(callee.statements[k], d - 1)
    /\ \A k \in 1..Len(node.kids) : PureIn(node.kids[k], d)

Pure(node) == PureIn(node, Len(Decls))

\* frame is evaluating an argument that is a pure expression (or has just
\* got its value).
InPure(frame) ==
    \E m \in 1..Len(frame.kont) :
        /\ frame.kont[m].op = "args"
        /\ frame.kont[m].i >= 1
        /\ Pure(frame.kont[m].node.kids[frame.kont[m].i])

\* C15: while an invocation evaluates a pure expression, no step changes its
\* scope or its pending return value, writes output or reads input; and when
\* the same pure expression is evaluated again with nothing but pure
\* expressions evaluated in between, the two values are equal.
C15_PureEvaluationRepeats ==
    [][Running =>
        /\ \A k \in 1..Len(stack) : InPure(stack[k]) =>
               /\ Len(stack') >= k
               /\ stack'[k].local = stack[k].local
               /\ stack'[k].return_value = stack[k].return_value
               /\ output' = output
               /\ stdin' = stdin /\ nread' = nread
        /\ (ctl.mode = "ret" /\ KTop.op = "args" /\ KTop.i >= 2) =>
               \A j \in 1..(KTop.i - 1) :
                   (/\ KTop.node.kids[j] = KTop.node.kids[KTop.i]
                    /\ \A m \in j..KTop.i : Pure(KTop.node.kids[m])) =>
                       KTop.vs[j] = ctl.v]_vars

\* not($x, f()) has been evaluated twice as an argument of k, f has assigned
\* to its own $x in between, and both evaluations gave true.
C15_Witness ==
    /\ Running
    /\ ctl.mode = "ret" /\ KTop.op = "args" /\ KTop.i = 2
    /\ KTop.node.kids[1] = KTop.node.kids[2]
    /\ Pure(KTop.node.kids[1])
    /\ "f" \in CalledIn(KTop.node.kids[1])
    /\ KTop.vs = <<BoolV(TRUE)>> /\ ctl.v = BoolV(TRUE)
    /\ Top.local = [x \in {"$x"} |-> IntV(0)]

(***************************************************************************)
(* C16: a return of a falsy value.                                         *)
(***************************************************************************)
\* The innermost run has executed a return and the value it left is falsy.
FalsyReturned == Running /\ Top.returned /\ Falsy(Top.return_value)

\* C16: after a return of a falsy value the loop hands the next statement to
\* evaluate, and evaluate evaluates it; a return sets the pending value
\* whatever was pending, nothing else changes it, and the value a run hands
\* to its caller is the pending value, the value of the last return it
\* executed.
C16_FalsyReturnGoesOn ==
    [][Running =>
        /\ (FalsyReturned /\ ctl.mode = "ret" /\ KTop.op = "for") =>
               IF Top.i < Len(Top.fn.statements)
               THEN /\ stack' = WithTop([Top EXCEPT !.i = Top.i + 1])
                    /\ ctl' = Eval(Top.fn.statements[Top.i + 1].kids[1])
                    /\ status' = "running"
               ELSE /\ Len(stack') = Len(stack) - 1
                    /\ ctl' = Ret(Top.return_value)
        /\ (FalsyReturned /\ ctl.mode = "eval"
               /\ ctl.node.type \in {"FunctionCall", "Assignment", "Comparison", "Condition"}) =>
               \/ status' = "exit"
               \/ /\ Len(stack') = Len(stack)
                  /\ stack'[Len(stack)].kont = Append(Top.kont, KTop')
                  /\ ctl'.mode = "eval"
        /\ (ctl.mode = "ret" /\ KTop.op = "return" /\ ctl.v.t = "list") =>
               /\ Len(stack') = Len(stack)
               /\ stack'[Len(stack)].return_value = ctl.v.l[1]
        /\ \A k \in 1..Len(stack) :
               (Len(stack') >= k /\ stack'[k].return_value # stack[k].return_value) =>
                   k = Len(stack) /\ ctl.mode = "ret" /\ KTop.op = "return"
        /\ Len(stack') = Len(stack) - 1 => ctl' = Ret(Top.return_value)]_vars

\* f has executed return(2 < 1), print("a"), return(""), print("b") and
\* return(7): its run has handed 7 to main.
C16_Witness ==
    /\ Decls = PRetFalsy
    /\ Len(stack) = 1
    /\ ctl = Ret(IntV(7))
    /\ output = <<"a", "b">>

(***************************************************************************)
(* C17: a return of a truthy value inside Condition bodies.                *)
(***************************************************************************)
\* The innermost run has executed a return, the value it left is truthy, and
\* every evaluate call still pending in the run is the evaluation of a
\* Condition body: the run is between two statements.
TruthyReturned ==
    /\ Running
    /\ Top.returned
    /\ Top.return_value.t \in {"int", "bool", "str"} /\ ~Falsy(Top.return_value)
    /\ \A m \in 1..Len(Top.kont) : Top.kont[m].op \in {"for", "body"}

\* The step leaves the scope, the pending value, the output and the input of
\* the innermost run as they are, and starts no run.
NothingExecuted ==
    /\ Len(stack') = Len(stack)
    /\ stack'[Len(stack)].local = Top.local
    /\ stack'[Len(stack)].return_value = Top.return_value
    /\ stack'[Len(stack)].i = Top.i
    /\ output' = output /\ stdin' = stdin /\ nread' = nread
    /\ status' = "running"

\* C17: once a return has left a truthy value, a statement handed to evaluate
\* is not executed (evaluate returns at once), each enclosing Condition body
\* is left without effect, however deep the return was, and the loop of run
\* hands out no further statement: the run returns the value.
C17_TruthyReturnHaltsInvocation ==
    [][TruthyReturned =>
        /\ ctl.mode = "eval" => NothingExecuted /\ stack' = stack /\ ctl' = Ret(NoneV)
        /\ (ctl.mode = "ret" /\ KTop.op = "body") =>
               /\ NothingExecuted
               /\ \/ stack'[Len(stack)].kont = KPop
                  \/ /\ stack'[Len(stack)].kont = Append(KPop, [KTop EXCEPT !.i = KTop.i + 1])
                     /\ ctl'.mode = "eval"
        /\ (ctl.mode = "ret" /\ KTop.op = "for") =>
               /\ stack' = SubSeq(stack, 1, Len(stack) - 1)
               /\ ctl' = Ret(Top.return_value)
               /\ output' = output /\ stdin' = stdin /\ nread' = nread]_vars

\* f has executed return(1) in the inner of two nested Conditions: neither
\* print("a"), print("b") nor print("c") has written, and main has got 1.
C17_Witness ==
    /\ Decls = PNestedRet
    /\ Len(stack) = 1
    /\ ctl = Ret(IntV(1))
    /\ output = <<>>

(***************************************************************************)
(* C18: the Function built from a declaration.                             *)
(***************************************************************************)
\* The parameter names a declaration states, in order, and its statements.
DeclaredParamNames(d) ==
    IF Len(d) >= 2 /\ d[2].type = "ParamList"
    THEN [k \in 1..Len(d[2].kids) |-> d[2].kids[k].name]
    ELSE <<>>

DeclaredStatements(d) ==
    IF Len(d) >= 2 /\ d[2].type = "ParamList" THEN SubSeq(d, 3, Len(d)) ELSE Tail(d)

\* The parameter names of a Function, in order.
ParamSeq(function) ==
    IF function.params.type = "None" THEN <<>>
    ELSE [k \in 1..Len(function.params.kids) |-> function.params.kids[k].name]

\* Every Function of the registry has the parameters and the statements of
\* its declaration.
RegistryMatchesDeclarations ==
    \A name \in DeclaredNames :
        /\ functions[name].kind = "Function"
        /\ ParamSeq(functions[name]) = DeclaredParamNames(DeclOf(name))
        /\ functions[name].statements = DeclaredStatements(DeclOf(name))

\* C18: the Function built from a declaration has exactly the declared
\* parameters and exactly the declared statements, a declaration with
\* parameters and an empty body included, and a call of a declared function
\* with as many arguments as it declares parameters starts its run without
\* error.
C18_FunctionMatchesDeclaration ==
    [][/\ status' # "parsed" => RegistryMatchesDeclarations'
       /\ (/\ Running /\ ctl.mode = "ret" /\ KTop.op = "call"
           /\ KTop.node.name \in DeclaredNames
           /\ Len(CallArgs) = Len(DeclaredParamNames(DeclOf(KTop.node.name)))
           /\ Len(stack) < StackLimit) =>
               /\ status' = "running"
               /\ Len(stack') = Len(stack) + 1
               /\ stack'[Len(stack')].fn.statements = DeclaredStatements(DeclOf(KTop.node.name))]_vars

(***************************************************************************)
(* C19: the rest of the expression that holds a return.                    *)
(***************************************************************************)
\* The innermost run has executed a return and the value it left is truthy.
TruthyPending ==
    /\ Running
    /\ Top.returned
    /\ Top.return_value.t \in {"int", "bool", "str"} /\ ~Falsy(Top.return_value)

\* C19: once a return has left a truthy value in the innermost run, no step
\* of that run invokes a built-in or a function, writes output or reads
\* input, the calls that enclose the return in its expression included.
C19_NoEffectAfterTruthyReturn ==
    [][TruthyPending =>
        /\ ~(ctl.mode = "ret" /\ KTop.op = "call")
        /\ Len(stack') <= Len(stack)
        /\ output' = output
        /\ stdin' = stdin /\ nread' = nread]_vars

(***************************************************************************)
(* C20: the order of lookup, arguments and callee.                         *)
(***************************************************************************)
\* The number of argument expressions of a call.
ArgCount(call) == IF call.kids[1].type = "ArgList" THEN Len(call.kids[1].kids) ELSE 0

\* C20: a call that evaluate reaches is looked up before anything of its
\* arguments is evaluated, and a name without entry ends the run there; the
\* argument expressions are handed to evaluate one after the other from the
\* first to the last, their values kept in that order; and a run is started
\* only by a call all of whose arguments have their values, the callee
\* starting at its first statement with exactly these values.
C20_LookupThenArgumentsThenCallee ==
    [][Running =>
        /\ (Evaluating("FunctionCall") /\ ctl.node.name # "return") =>
               IF ctl.node.name \notin DOMAIN functions
               THEN /\ status' = "exit"
                    /\ stack' = stack /\ ctl' = ctl
                    /\ output' = output /\ stdin' = stdin /\ nread' = nread
               ELSE /\ stack' = WithTop([Top EXCEPT !.kont = Append(Top.kont, K("call", ctl.node, 0, <<>>))])
                    /\ ctl' = Eval(ctl.node.kids[1])
                    /\ UNCHANGED <<status, output, stdin, nread>>
        /\ (ctl.mode = "ret" /\ KTop.op = "args") =>
               LET values == IF KTop.i = 0 THEN <<>> ELSE KTop.vs \o <<ctl.v>>
               IN  /\ Len(values) = KTop.i
                   /\ IF KTop.i < Len(KTop.node.kids)
                      THEN /\ ctl' = Eval(KTop.node.kids[KTop.i + 1])
                           /\ stack' = WithTop([Top EXCEPT !.kont =
                                  Append(KPop, K("args", KTop.node, KTop.i + 1, values))])
                      ELSE /\ ctl' = Ret(ListV(values))
                           /\ stack' = WithTop([Top EXCEPT !.kont = KPop])
        /\ (ctl.mode = "ret" /\ KTop.op = "call") =>
               /\ ctl.v = NoneV \/ (ctl.v.t = "list" /\ Len(ctl.v.l) = ArgCount(KTop.node))
               /\ ArgCount(KTop.node) = 0 => ctl.v = NoneV
        /\ Len(stack') > Len(stack) =>
               /\ ctl.mode = "ret" /\ KTop.op = "call"
               /\ Len(stack') = Len(stack) + 1
               /\ stack'[Len(stack')].fn = functions[KTop.node.name]
               /\ stack'[Len(stack')].args = (IF ctl.v = NoneV THEN <<>> ELSE ctl.v.l)
               /\ stack'[Len(stack')].i = 0
               /\ output' = output]_vars

\* k(print("1"), print("2")) has written 1, then 2, then the k of its body;
\* the call of nope, a name without entry, has ended the run: neither
\* print("3") has written nor has the unbound $u been reported.
C20_Witness ==
    /\ Decls = POrder
    /\ status = "exit"
    /\ output = <<"1", "2", "k">>
    /\ diag = << <<"Undefined function", "nope">> >>

====
